---- MODULE Spec2Model ----
(***************************************************************************)
(* A model of the claude-reviewer command line (claude_reviewer/cli.py).   *)
(*                                                                         *)
(* The state is the record store the commands read and write (prs), the    *)
(* invocations the git collaborator has received (git), and one record per *)
(* command invocation (cmd): the command's arguments, its local variables  *)
(* and its position in the handler.  Every call a handler makes to the     *)
(* store is one atomic step; the steps of different invocations            *)
(* interleave.  The store (claude_reviewer/database.py) and the git        *)
(* collaborator (claude_reviewer/git_ops.py) are modelled by their         *)
(* contracts; the reviewer who sets a verdict and the removal of a PR      *)
(* record happen outside the command line and are environment actions.     *)
(*                                                                         *)
(* Spec is the commands that write the store (create, update, merge) with  *)
(* the environment.  watch only reads the store, so it adds no behaviour   *)
(* of the store; WatchSpec is one watch beside the writers of its PR,      *)
(* under the fairness its loop has.  CreateSpec is two creates beside a    *)
(* writer, WritersSpec the updates and merges of one PR, MergeSpec the     *)
(* merges of one PR, FeedbackSpec a watch beside the reviewer who          *)
(* comments, ThreadSpec the reply and comments commands on the comment     *)
(* threads, ReplySpec a reply beside the comments of two PRs, and ListSpec *)
(* the list command.                                                       *)
(***************************************************************************)
EXTENDS Integers, Sequences, FiniteSets, TLC

(* ------------------------------ bounds -------------------------------- *)

\* PR identifiers the store can hand out.
MaxPRs == 2

\* Command invocations in one behaviour (they may all run concurrently).
NumProcs == 3

\* Status writes by the reviewer in one behaviour.
MaxReviews == 1

\* Largest --interval and --timeout given to watch, in seconds.
MaxInterval == 1

MaxTimeout == 1

\* Largest extra whole second one loop iteration of watch may take.
MaxJitter == 1

\* Comment identifiers the store can hand out.
MaxComments == 2

\* Largest --limit given to list.
MaxLimit == 2

\* Replies in the store up to which the reviewer adds one.
MaxReplies == 1

(* ----------------------------- constants ------------------------------ *)

PRIds == 1 .. MaxPRs

CommentIds == 1 .. MaxComments

Procs == 1 .. NumProcs

Refs == {"main", "feature"}

\* --head not given (None or the empty string: both are falsy at line 61).
NoHead == "<none>"

\* No commit: what the model keeps for a ref that does not resolve.
NoCommit == "<no commit>"

PENDING == "pending"

APPROVED == "approved"

CHANGES_REQUESTED == "changes_requested"

MERGED == "merged"

CLOSED == "closed"

PRStatus == {PENDING, APPROVED, CHANGES_REQUESTED, MERGED, CLOSED}

Terminal == {MERGED, CLOSED}

\* What a call to the git collaborator can do: return success, return a
\* reported failure ({"success": False, ...}) or raise.
GitOutcomes == {"ok", "failed", "raised"}

\* --author (default "claude") and the message of a reply.
Authors == {"claude", "human"}

Messages == {"fixed", "wontfix"}

Untils == {"approved", "changes_requested", "feedback_given", "pending", "any_change"}

\* elapsed is only ever compared with timeout (elapsed > timeout), so every
\* value above the largest timeout behaves alike: elapsed saturates there.
ElapsedCap == MaxTimeout + 1

Min(a, b) == IF a < b THEN a ELSE b

VARIABLES
    prs,      \* the store: PR id -> PR record (with its diff revisions)
    git,      \* PR id -> how often merge, push, delete_branch were invoked
    cmd,      \* invocation -> its arguments, locals and position
    reviews,  \* status writes the reviewer has made
    comments, \* the store: comment id -> comment record
    replies   \* the store: the reply records, in the order they were created

vars == <<prs, git, cmd, reviews, comments, replies>>

(* ------------------------------ the store ----------------------------- *)

\* An identifier the store has not handed out yet.
AbsentPR ==
    [state |-> "absent", status |-> PENDING, base_ref |-> "", head_ref |-> "",
     base_commit |-> "", revs |-> <<>>, updated_at |-> 0]

\* A record that was removed; its identifier is never reused.
DeletedPR == [AbsentPR EXCEPT !.state = "deleted"]

Live(db, id) == id \in PRIds /\ db[id].state = "live"

FreeIds(db) == {i \in PRIds : db[i].state = "absent"}

NewId(db) == CHOOSE i \in FreeIds(db) : \A j \in FreeIds(db) : i <= j

SeqMax(s) == IF s = <<>> THEN 0 ELSE CHOOSE m \in {s[i] : i \in DOMAIN s} : \A i \in DOMAIN s : s[i] <= m

LatestRevision(pr) == SeqMax(pr.revs)

\* createPR: a new identifier, status PENDING and revision 1, in one write.
create_pr(db, base, head, base_commit) ==
    [db EXCEPT ![NewId(db)] =
        [state |-> "live", status |-> PENDING, base_ref |-> base, head_ref |-> head,
         base_commit |-> base_commit, revs |-> <<1>>, updated_at |-> 1]]

\* updatePRDiff: appends the next revision and bumps updated_at; the status
\* is left alone.
update_pr_diff(db, id) ==
    [db EXCEPT ![id].revs = Append(@, SeqMax(@) + 1), ![id].updated_at = @ + 1]

\* updatePRStatus: an unconditional status write and an updated_at bump; a
\* record that is gone is not written.
update_pr_status(db, id, s) ==
    IF Live(db, id)
    THEN [db EXCEPT ![id].status = s, ![id].updated_at = @ + 1]
    ELSE db

\* A comment identifier the store has not handed out yet.  Of a comment the
\* model keeps the owning PR and the resolved flag; the anchor (file_path,
\* line_number) and the content are never tested by the commands.
AbsentComment == [state |-> "absent", pr |-> 0, resolved |-> FALSE]

\* A comment removed with its PR; its identifier is never reused.
DeletedComment == [AbsentComment EXCEPT !.state = "deleted"]

\* getCommentByUUID finds the comment.
Stored(cs, c) == c \in CommentIds /\ cs[c].state = "stored"

FreeCommentIds(cs) == {c \in CommentIds : cs[c].state = "absent"}

NewCommentId(cs) == CHOOSE c \in FreeCommentIds(cs) : \A d \in FreeCommentIds(cs) : c <= d

\* addComment: a new comment of PR id, resolved = false.
add_comment(cs, id) ==
    [cs EXCEPT ![NewCommentId(cs)] = [state |-> "stored", pr |-> id, resolved |-> FALSE]]

\* resolveComment
resolve_comment(cs, c) == [cs EXCEPT ![c].resolved = TRUE]

\* getComments(id, unresolvedOnly): the comments of PR id, filtered by
\* resolved == false at query time when unresolvedOnly is set.
get_comments(cs, id, unresolved_only) ==
    {c \in CommentIds :
        /\ Stored(cs, c)
        /\ cs[c].pr = id
        /\ unresolved_only => ~cs[c].resolved}

\* The replies of comment c, in creation order.
RepliesOf(rs, c) == SelectSeq(rs, LAMBDA r : r.comment = c)

\* getCommentsWithReplies(id, unresolvedOnly): each comment of getComments
\* with its replies in creation order.
get_comments_with_replies(cs, rs, id, unresolved_only) ==
    {[comment |-> c, replies |-> RepliesOf(rs, c)] : c \in get_comments(cs, id, unresolved_only)}

\* An addReply that does not look the comment up.
add_reply_Unchecked(cs, rs, c, text, author) ==
    Append(rs, [comment |-> c, author |-> author, content |-> text])

\* addReply(commentId, text, author): appends the reply to the log of a
\* comment that exists; against a comment that does not exist it fails
\* (NotFound) and stores nothing.
add_reply(cs, rs, c, text, author) ==
    IF Stored(cs, c)
    THEN Append(rs, [comment |-> c, author |-> author, content |-> text])
    ELSE rs

\* The removal of PR id takes its comments and their replies with it.
CommentsWithout(cs, id) ==
    [c \in CommentIds |-> IF cs[c].state = "stored" /\ cs[c].pr = id THEN DeletedComment ELSE cs[c]]

RepliesWithout(cs, rs, id) == SelectSeq(rs, LAMBDA r : cs[r.comment].pr # id)

\* listPRs(status, limit): the PRs whose status is the filter (all of them
\* when there is none), latest updated_at first, at most limit of them.
RECURSIVE ByUpdatedDesc(_, _)
ByUpdatedDesc(db, ids) ==
    IF ids = {} THEN <<>>
    ELSE LET first == CHOOSE i \in ids :
                         \A j \in ids : \/ db[i].updated_at > db[j].updated_at
                                        \/ db[i].updated_at = db[j].updated_at /\ i <= j
         IN <<first>> \o ByUpdatedDesc(db, ids \ {first})

NoFilter == "<no filter>"

list_prs(db, status, limit) ==
    LET matching == {i \in PRIds : Live(db, i) /\ (status # NoFilter => db[i].status = status)}
        sorted == ByUpdatedDesc(db, matching)
    IN SubSeq(sorted, 1, Min(limit, Len(sorted)))

(* --------------------------- invocations ------------------------------ *)

IdleCmd ==
    [kind |-> "none", pc |-> "idle", pr |-> 0, outcome |-> "none",
     status |-> "none", rev0 |-> 0, updated0 |-> 0, new_revision |-> 0,
     push |-> FALSE, delete_branch |-> FALSE, uncommitted |-> "unknown",
     until |-> "none", interval |-> 0, timeout |-> 0, elapsed |-> 0,
     initial_status |-> "none", initial_updated |-> 0,
     comment |-> 0, author |-> "none", message |-> "none", shown |-> {},
     filter |-> "none", limit |-> 0, listed |-> <<>>]

\* A finished invocation: what it was, on which PR, how it ended and, for an
\* update, the revision number it reported.
Done(kind, id, outcome, rev) ==
    [IdleCmd EXCEPT !.kind = kind, !.pc = "done", !.pr = id, !.outcome = outcome,
                    !.new_revision = rev]

\* Invocations are numbered in the order they are started.
CanStart(p) == cmd[p].pc = "idle" /\ (IF p = 1 THEN TRUE ELSE cmd[p - 1].pc # "idle")

\* An interrupted watch that exits with an error code.
ExitCode_StoppedIsError(outcome) == IF outcome \in {"ok", "success"} THEN 0 ELSE 1

\* sys.exit(0) or falling off the end of the handler.
ExitCode(outcome) == IF outcome \in {"ok", "success", "stopped"} THEN 0 ELSE 1

Init ==
    /\ prs = [i \in PRIds |-> AbsentPR]
    /\ git = [i \in PRIds |-> [merge |-> 0, push |-> 0, delete_branch |-> 0]]
    /\ cmd = [p \in Procs |-> IdleCmd]
    /\ reviews = 0
    /\ comments = [c \in CommentIds |-> AbsentComment]
    /\ replies = <<>>

(* ------------------------------- create ------------------------------- *)

\* head_ref = head or git.get_current_branch()
ResolveHead(head, current) == IF head = NoHead THEN current ELSE head

\* A create that does not compare the branches.
SameBranch_Unchecked(head_ref, base) == FALSE

\* if head_ref == base: ... sys.exit(1)
SameBranch(head_ref, base) == head_ref = base

\* base_commit = git.get_commit_sha(base): the commit of a base that
\* resolves; the call raises when it does not.
CommitOf(base, base_found) == IF base_found THEN "sha:" \o base ELSE NoCommit

\* try: base_commit = ... except Exception: ... sys.exit(1)
BaseMissing(base_commit) == base_commit = NoCommit

\* A create that records its diff a second time through db.update_pr_diff.
Create_RecordsDiffTwice(p) ==
    /\ CanStart(p)
    /\ \E base \in Refs, head \in Refs \cup {NoHead}, current \in Refs,
          base_found \in BOOLEAN, rest_ok \in BOOLEAN :
          LET head_ref == ResolveHead(head, current)
              base_commit == CommitOf(base, base_found) IN
          IF SameBranch(head_ref, base) \/ BaseMissing(base_commit) \/ ~rest_ok
          THEN /\ cmd' = [cmd EXCEPT ![p] = Done("create", 0, "fail", 0)]
               /\ prs' = prs
          ELSE /\ FreeIds(prs) # {}
               /\ cmd' = [cmd EXCEPT ![p] = Done("create", NewId(prs), "ok", 0)]
               /\ prs' = update_pr_diff(create_pr(prs, base, head_ref, base_commit), NewId(prs))
    /\ UNCHANGED <<git, reviews, comments, replies>>

\* The whole handler: it reads nothing from the store and writes it once.
\* base_found: base resolves to a commit; rest_ok: no other step raises.
Create(p) ==
    /\ CanStart(p)
    /\ \E base \in Refs, head \in Refs \cup {NoHead}, current \in Refs,
          base_found \in BOOLEAN, rest_ok \in BOOLEAN :
          LET head_ref == ResolveHead(head, current)
              base_commit == CommitOf(base, base_found) IN
          IF SameBranch(head_ref, base) \/ BaseMissing(base_commit) \/ ~rest_ok
          THEN /\ cmd' = [cmd EXCEPT ![p] = Done("create", 0, "fail", 0)]
               /\ prs' = prs
          ELSE /\ FreeIds(prs) # {}
               /\ cmd' = [cmd EXCEPT ![p] = Done("create", NewId(prs), "ok", 0)]
               /\ prs' = create_pr(prs, base, head_ref, base_commit)
    /\ UNCHANGED <<git, reviews, comments, replies>>

(* ------------------------------- update ------------------------------- *)

\* pr = db.get_pr_by_uuid(pr_id); if not pr: sys.exit(1)
UpdateStart(p) ==
    /\ CanStart(p)
    /\ \E id \in PRIds :
          IF Live(prs, id)
          THEN cmd' = [cmd EXCEPT ![p] =
                         [IdleCmd EXCEPT !.kind = "update", !.pc = "u_diff", !.pr = id,
                                         !.status = prs[id].status,
                                         !.rev0 = LatestRevision(prs[id]),
                                         !.updated0 = prs[id].updated_at]]
          ELSE cmd' = [cmd EXCEPT ![p] = Done("update", id, "fail", 0)]
    /\ UNCHANGED <<prs, git, reviews, comments, replies>>

\* An update that reports a revision number worked out from the record it
\* read at its start instead of the number db.update_pr_diff returns.
UpdateDiff_ReportsFromRead(p) ==
    /\ cmd[p].pc = "u_diff"
    /\ \E git_ok \in BOOLEAN :
          IF git_ok /\ Live(prs, cmd[p].pr)
          THEN /\ prs' = update_pr_diff(prs, cmd[p].pr)
               /\ cmd' = [cmd EXCEPT ![p].pc = "u_status",
                                     ![p].new_revision = cmd[p].rev0 + 1]
          ELSE /\ prs' = prs
               /\ cmd' = [cmd EXCEPT ![p] = Done("update", cmd[p].pr, "fail", 0)]
    /\ UNCHANGED <<git, reviews, comments, replies>>

\* git.get_diff, git.get_commit_sha, then db.update_pr_diff.  A raise of one
\* of them (a record that is gone included) ends the command in the handler's
\* except clause.
UpdateDiff(p) ==
    /\ cmd[p].pc = "u_diff"
    /\ \E git_ok \in BOOLEAN :
          IF git_ok /\ Live(prs, cmd[p].pr)
          THEN /\ prs' = update_pr_diff(prs, cmd[p].pr)
               /\ cmd' = [cmd EXCEPT ![p].pc = "u_status",
                                     ![p].new_revision = LatestRevision(prs'[cmd[p].pr])]
          ELSE /\ prs' = prs
               /\ cmd' = [cmd EXCEPT ![p] = Done("update", cmd[p].pr, "fail", 0)]
    /\ UNCHANGED <<git, reviews, comments, replies>>

\* An update that writes back the status it read instead of PENDING.
UpdateStatus_WritesBack(p) ==
    /\ cmd[p].pc = "u_status"
    /\ \E written \in BOOLEAN :
          IF written
          THEN /\ prs' = update_pr_status(prs, cmd[p].pr, cmd[p].status)
               /\ cmd' = [cmd EXCEPT ![p].pc = "done", ![p].outcome = "ok"]
          ELSE /\ prs' = prs
               /\ cmd' = [cmd EXCEPT ![p] = Done("update", cmd[p].pr, "fail", 0)]
    /\ UNCHANGED <<git, reviews, comments, replies>>

\* db.update_pr_status(pr_id, PRStatus.PENDING), then the success panel.  A
\* raise of the store call (the write did not happen) ends the command in
\* the handler's except clause; the revision written before it stays.
UpdateStatus(p) ==
    /\ cmd[p].pc = "u_status"
    /\ \E written \in BOOLEAN :
          IF written
          THEN /\ prs' = update_pr_status(prs, cmd[p].pr, PENDING)
               /\ cmd' = [cmd EXCEPT ![p].pc = "done", ![p].outcome = "ok"]
          ELSE /\ prs' = prs
               /\ cmd' = [cmd EXCEPT ![p] = Done("update", cmd[p].pr, "fail", 0)]
    /\ UNCHANGED <<git, reviews, comments, replies>>

(* ------------------------------- merge -------------------------------- *)

\* A merge that turns away pending PRs only.
NotApproved_PendingOnly(status) == status = PENDING

\* if pr.status != PRStatus.APPROVED: ... sys.exit(1)
NotApproved(status) == status # APPROVED

\* pr = db.get_pr_by_uuid(pr_id) and the two checks on it.
MergeStart(p) ==
    /\ CanStart(p)
    /\ \E id \in PRIds, push \in BOOLEAN, delete_branch \in BOOLEAN :
          IF Live(prs, id) /\ ~NotApproved(prs[id].status)
          THEN cmd' = [cmd EXCEPT ![p] =
                         [IdleCmd EXCEPT !.kind = "merge", !.pc = "m_git", !.pr = id,
                                         !.status = prs[id].status,
                                         !.push = push, !.delete_branch = delete_branch]]
          ELSE cmd' = [cmd EXCEPT ![p] = Done("merge", id, "fail", 0)]
    /\ UNCHANGED <<prs, git, reviews, comments, replies>>

AfterMerge(c) == IF c.push THEN "m_push" ELSE IF c.delete_branch THEN "m_delete" ELSE "m_write"

AfterPush(c) == IF c.delete_branch THEN "m_delete" ELSE "m_write"

\* A merge that tests the result of git merge only after the push.
MergeGit_PushesAnyway(p) ==
    /\ cmd[p].pc = "m_git"
    /\ \E dirty \in BOOLEAN, result \in GitOutcomes :
          IF dirty
          THEN /\ git' = git
               /\ cmd' = [cmd EXCEPT ![p] =
                             [Done("merge", cmd[p].pr, "fail", 0) EXCEPT !.uncommitted = "yes"]]
          ELSE IF result = "ok"
          THEN /\ git' = [git EXCEPT ![cmd[p].pr].merge = @ + 1]
               /\ cmd' = [cmd EXCEPT ![p].pc = AfterMerge(cmd[p]), ![p].uncommitted = "no"]
          ELSE /\ git' = [git EXCEPT ![cmd[p].pr].merge = @ + 1,
                                     ![cmd[p].pr].push = IF cmd[p].push THEN @ + 1 ELSE @]
               /\ cmd' = [cmd EXCEPT ![p] = Done("merge", cmd[p].pr, "fail", 0)]
    /\ UNCHANGED <<prs, reviews, comments, replies>>

\* git.has_uncommitted_changes(), then git.merge(head_ref, base_ref).
MergeGit(p) ==
    /\ cmd[p].pc = "m_git"
    /\ \E dirty \in BOOLEAN, result \in GitOutcomes :
          IF dirty
          THEN /\ git' = git
               /\ cmd' = [cmd EXCEPT ![p] =
                             [Done("merge", cmd[p].pr, "fail", 0) EXCEPT !.uncommitted = "yes"]]
          ELSE /\ git' = [git EXCEPT ![cmd[p].pr].merge = @ + 1]
               /\ IF result = "ok"
                  THEN cmd' = [cmd EXCEPT ![p].pc = AfterMerge(cmd[p]),
                                         ![p].uncommitted = "no"]
                  ELSE cmd' = [cmd EXCEPT ![p] = Done("merge", cmd[p].pr, "fail", 0)]
    /\ UNCHANGED <<prs, reviews, comments, replies>>

\* push_result = git.push(): a reported failure is a warning, a raise ends
\* the command in the handler's except clause.
MergePush(p) ==
    /\ cmd[p].pc = "m_push"
    /\ git' = [git EXCEPT ![cmd[p].pr].push = @ + 1]
    /\ \E result \in GitOutcomes :
          IF result = "raised"
          THEN cmd' = [cmd EXCEPT ![p] = Done("merge", cmd[p].pr, "fail", 0)]
          ELSE cmd' = [cmd EXCEPT ![p].pc = AfterPush(cmd[p])]
    /\ UNCHANGED <<prs, reviews, comments, replies>>

\* delete_result = git.delete_branch(pr.head_ref)
MergeDelete(p) ==
    /\ cmd[p].pc = "m_delete"
    /\ git' = [git EXCEPT ![cmd[p].pr].delete_branch = @ + 1]
    /\ \E result \in GitOutcomes :
          IF result = "raised"
          THEN cmd' = [cmd EXCEPT ![p] = Done("merge", cmd[p].pr, "fail", 0)]
          ELSE cmd' = [cmd EXCEPT ![p].pc = "m_write"]
    /\ UNCHANGED <<prs, reviews, comments, replies>>

\* db.update_pr_status(pr_id, PRStatus.MERGED), then the success panel.
MergeWrite(p) ==
    /\ cmd[p].pc = "m_write"
    /\ prs' = update_pr_status(prs, cmd[p].pr, MERGED)
    /\ cmd' = [cmd EXCEPT ![p].pc = "done", ![p].outcome = "ok"]
    /\ UNCHANGED <<git, reviews, comments, replies>>

(* ------------------------------- watch -------------------------------- *)

\* The condition the loop tests on the record it has just fetched (lines
\* 695, 696, 712, 714, 730, 732).
\* An any_change test that compares the status only.
TargetReached_StatusOnly(until, current_status, updated_at, initial_status, initial_updated) ==
    IF until = "any_change"
    THEN current_status # initial_status
    ELSE IF until = "feedback_given"
    THEN current_status \in {"approved", "changes_requested"}
    ELSE current_status = until

\* A feedback_given test that takes every status but pending for a verdict.
TargetReached_AnyVerdict(until, current_status, updated_at, initial_status, initial_updated) ==
    IF until = "any_change"
    THEN current_status # initial_status \/ updated_at # initial_updated
    ELSE IF until = "feedback_given"
    THEN current_status # "pending"
    ELSE current_status = until

TargetReached(until, current_status, updated_at, initial_status, initial_updated) ==
    IF until = "any_change"
    THEN current_status # initial_status \/ updated_at # initial_updated
    ELSE IF until = "feedback_given"
    THEN current_status \in {"approved", "changes_requested"}
    ELSE current_status = until

\* A timeout check without "timeout > 0".
TimedOut_ZeroIsALimit(timeout, elapsed) == elapsed > timeout

\* if timeout > 0 and elapsed > timeout
TimedOut(timeout, elapsed) == timeout > 0 /\ elapsed > timeout

\* pr = db.get_pr_by_uuid(pr_id); the baseline; start_time = time.time()
WatchStart(p) ==
    /\ CanStart(p)
    /\ \E id \in PRIds, until \in Untils, interval \in 0 .. MaxInterval,
          timeout \in 0 .. MaxTimeout :
          IF Live(prs, id)
          THEN cmd' = [cmd EXCEPT ![p] =
                         [IdleCmd EXCEPT !.kind = "watch", !.pc = "w_sleep", !.pr = id,
                                         !.until = until, !.interval = interval,
                                         !.timeout = timeout,
                                         !.initial_status = prs[id].status,
                                         !.initial_updated = prs[id].updated_at]]
          ELSE cmd' = [cmd EXCEPT ![p] = Done("watch", id, "notfound", 0)]
    /\ UNCHANGED <<prs, git, reviews, comments, replies>>

\* time.sleep(interval), elapsed = int(time.time() - start_time) and the
\* timeout check.  The sleep lasts at least interval seconds; the rest of the
\* iteration takes some more time (late: whole seconds of it).
WatchSleep(p) ==
    /\ cmd[p].pc = "w_sleep"
    /\ \E late \in 0 .. MaxJitter :
          LET elapsed == Min(cmd[p].elapsed + cmd[p].interval + late, ElapsedCap) IN
          IF TimedOut(cmd[p].timeout, elapsed)
          THEN cmd' = [cmd EXCEPT ![p] = Done("watch", cmd[p].pr, "timeout", 0)]
          ELSE cmd' = [cmd EXCEPT ![p].pc = "w_poll", ![p].elapsed = elapsed]
    /\ UNCHANGED <<prs, git, reviews, comments, replies>>

\* Whether the branch that found the target fetches the unresolved comments
\* before it exits: always at line 702, for a changes_requested verdict at
\* line 720, for --until changes_requested at line 744.
FetchesComments(until, current_status) ==
    \/ until = "any_change"
    \/ until = "feedback_given" /\ current_status = CHANGES_REQUESTED
    \/ until = "changes_requested"

\* What a watch that found its target exits with: the mode and the timeout
\* it was given, the sampled status and the comments it printed.
WatchSuccess(c, current_status, shown) ==
    [Done("watch", c.pr, "success", 0) EXCEPT !.until = c.until, !.timeout = c.timeout,
                                               !.status = current_status, !.shown = shown]

\* A poll that tests the target only on a record that differs from the
\* baseline.
WatchPoll_OnlyOnChange(p) ==
    /\ cmd[p].pc = "w_poll"
    /\ LET id == cmd[p].pr IN
       IF ~Live(prs, id)
       THEN cmd' = [cmd EXCEPT ![p] = Done("watch", id, "notfound", 0)]
       ELSE IF /\ \/ prs[id].status # cmd[p].initial_status
                  \/ prs[id].updated_at # cmd[p].initial_updated
               /\ TargetReached(cmd[p].until, prs[id].status, prs[id].updated_at,
                                cmd[p].initial_status, cmd[p].initial_updated)
       THEN IF FetchesComments(cmd[p].until, prs[id].status)
            THEN cmd' = [cmd EXCEPT ![p].pc = "w_comments", ![p].outcome = "success",
                                    ![p].status = prs[id].status]
            ELSE cmd' = [cmd EXCEPT ![p] = WatchSuccess(cmd[p], prs[id].status, {})]
       ELSE cmd' = [cmd EXCEPT ![p].pc = "w_sleep"]
    /\ UNCHANGED <<prs, git, reviews, comments, replies>>

\* A poll that does not test whether the record was found.
WatchPoll_IgnoresMissing(p) ==
    /\ cmd[p].pc = "w_poll"
    /\ LET id == cmd[p].pr IN
       IF Live(prs, id) /\ TargetReached(cmd[p].until, prs[id].status, prs[id].updated_at,
                                         cmd[p].initial_status, cmd[p].initial_updated)
       THEN IF FetchesComments(cmd[p].until, prs[id].status)
            THEN cmd' = [cmd EXCEPT ![p].pc = "w_comments", ![p].outcome = "success",
                                    ![p].status = prs[id].status]
            ELSE cmd' = [cmd EXCEPT ![p] = WatchSuccess(cmd[p], prs[id].status, {})]
       ELSE cmd' = [cmd EXCEPT ![p].pc = "w_sleep"]
    /\ UNCHANGED <<prs, git, reviews, comments, replies>>

\* pr = db.get_pr_by_uuid(pr_id) and the test of the target.
WatchPoll(p) ==
    /\ cmd[p].pc = "w_poll"
    /\ LET id == cmd[p].pr IN
       IF ~Live(prs, id)
       THEN cmd' = [cmd EXCEPT ![p] = Done("watch", id, "notfound", 0)]
       ELSE IF TargetReached(cmd[p].until, prs[id].status, prs[id].updated_at,
                             cmd[p].initial_status, cmd[p].initial_updated)
       THEN IF FetchesComments(cmd[p].until, prs[id].status)
            THEN cmd' = [cmd EXCEPT ![p].pc = "w_comments", ![p].outcome = "success",
                                    ![p].status = prs[id].status]
            ELSE cmd' = [cmd EXCEPT ![p] = WatchSuccess(cmd[p], prs[id].status, {})]
       ELSE cmd' = [cmd EXCEPT ![p].pc = "w_sleep"]
    /\ UNCHANGED <<prs, git, reviews, comments, replies>>

\* A watch that fetches every comment of the PR.
WatchComments_Unfiltered(p) ==
    /\ cmd[p].pc = "w_comments"
    /\ cmd' = [cmd EXCEPT ![p] = WatchSuccess(cmd[p], cmd[p].status,
                                              get_comments(comments, cmd[p].pr, FALSE))]
    /\ UNCHANGED <<prs, git, reviews, comments, replies>>

\* comments_list = db.get_comments(pr_id, unresolved_only=True), printed, and
\* sys.exit(0)
WatchComments(p) ==
    /\ cmd[p].pc = "w_comments"
    /\ cmd' = [cmd EXCEPT ![p] = WatchSuccess(cmd[p], cmd[p].status,
                                              get_comments(comments, cmd[p].pr, TRUE))]
    /\ UNCHANGED <<prs, git, reviews, comments, replies>>

\* except KeyboardInterrupt: "Stopped watching", sys.exit(0)
WatchInterrupt(p) ==
    /\ cmd[p].pc \in {"w_sleep", "w_poll", "w_comments"}
    /\ cmd' = [cmd EXCEPT ![p] = Done("watch", cmd[p].pr, "stopped", 0)]
    /\ UNCHANGED <<prs, git, reviews, comments, replies>>

(* --------------------------- reply, comments -------------------------- *)

\* pr = db.get_pr_by_uuid(pr_id); if not pr: ... sys.exit(1)
ReplyStart(p) ==
    /\ CanStart(p)
    /\ \E id \in PRIds, c \in CommentIds, message \in Messages, author \in Authors :
          IF Live(prs, id)
          THEN cmd' = [cmd EXCEPT ![p] =
                         [IdleCmd EXCEPT !.kind = "reply", !.pc = "r_comment", !.pr = id,
                                         !.comment = c, !.message = message,
                                         !.author = author]]
          ELSE cmd' = [cmd EXCEPT ![p] = Done("reply", id, "notfound", 0)]
    /\ UNCHANGED <<prs, git, reviews, comments, replies>>

\* comment = db.get_comment_by_uuid(comment_uuid); if not comment: ...
\* sys.exit(1)
ReplyComment(p) ==
    /\ cmd[p].pc = "r_comment"
    /\ IF Stored(comments, cmd[p].comment)
       THEN cmd' = [cmd EXCEPT ![p].pc = "r_add"]
       ELSE cmd' = [cmd EXCEPT ![p] =
                      [Done("reply", cmd[p].pr, "notfound", 0) EXCEPT !.comment = cmd[p].comment]]
    /\ UNCHANGED <<prs, git, reviews, comments, replies>>

\* What a reply command that stored its reply ends with.
Replied(c) ==
    [Done("reply", c.pr, "ok", 0) EXCEPT !.comment = c.comment, !.message = c.message,
                                         !.author = c.author]

\* A reply that also marks the comment resolved.
ReplyAdd_Resolves(p) ==
    /\ cmd[p].pc = "r_add"
    /\ IF Stored(comments, cmd[p].comment)
       THEN /\ replies' = add_reply(comments, replies, cmd[p].comment, cmd[p].message,
                                    cmd[p].author)
            /\ comments' = resolve_comment(comments, cmd[p].comment)
            /\ cmd' = [cmd EXCEPT ![p] = Replied(cmd[p])]
       ELSE /\ replies' = replies
            /\ comments' = comments
            /\ cmd' = [cmd EXCEPT ![p] =
                          [Done("reply", cmd[p].pr, "notfound", 0) EXCEPT !.comment = cmd[p].comment]]
    /\ UNCHANGED <<prs, git, reviews>>

\* reply_uuid = db.add_reply(comment_uuid, message, author); a ValueError
\* from the store (the comment is gone) is printed and ends with exit code 1.
ReplyAdd(p) ==
    /\ cmd[p].pc = "r_add"
    /\ replies' = add_reply(comments, replies, cmd[p].comment, cmd[p].message, cmd[p].author)
    /\ IF Stored(comments, cmd[p].comment)
       THEN cmd' = [cmd EXCEPT ![p] = Replied(cmd[p])]
       ELSE cmd' = [cmd EXCEPT ![p] =
                      [Done("reply", cmd[p].pr, "notfound", 0) EXCEPT !.comment = cmd[p].comment]]
    /\ UNCHANGED <<prs, git, reviews, comments>>

\* pr = db.get_pr_by_uuid(pr_id); if not pr: ... sys.exit(1)
CommentsStart(p) ==
    /\ CanStart(p)
    /\ \E id \in PRIds, unresolved \in BOOLEAN :
          IF Live(prs, id)
          THEN cmd' = [cmd EXCEPT ![p] =
                         [IdleCmd EXCEPT !.kind = "comments", !.pc = "c_fetch", !.pr = id,
                                         !.filter = IF unresolved THEN "unresolved" ELSE "all"]]
          ELSE cmd' = [cmd EXCEPT ![p] = Done("comments", id, "notfound", 0)]
    /\ UNCHANGED <<prs, git, reviews, comments, replies>>

\* A comments command that prints the latest reply first.
CommentsFetch_LatestFirst(p) ==
    /\ cmd[p].pc = "c_fetch"
    /\ cmd' = [cmd EXCEPT ![p] =
                  [Done("comments", cmd[p].pr, "ok", 0) EXCEPT
                      !.filter = cmd[p].filter,
                      !.shown = {[comment |-> t.comment,
                                     replies |-> [i \in 1 .. Len(t.replies) |->
                                                    t.replies[Len(t.replies) + 1 - i]]] :
                                    t \in get_comments_with_replies(
                                              comments, replies, cmd[p].pr,
                                              cmd[p].filter = "unresolved")}]]
    /\ UNCHANGED <<prs, git, reviews, comments, replies>>

\* comments_with_replies = db.get_comments_with_replies(pr_id,
\* unresolved_only=unresolved), written out comment by comment, each with its
\* replies in the order returned.
CommentsFetch(p) ==
    /\ cmd[p].pc = "c_fetch"
    /\ cmd' = [cmd EXCEPT ![p] =
                  [Done("comments", cmd[p].pr, "ok", 0) EXCEPT
                      !.filter = cmd[p].filter,
                      !.shown = get_comments_with_replies(comments, replies, cmd[p].pr,
                                                          cmd[p].filter = "unresolved")]]
    /\ UNCHANGED <<prs, git, reviews, comments, replies>>

(* -------------------------------- list -------------------------------- *)

\* --status not given.
NoStatus == "<no status>"

\* A list that passes no status on to the store.
StatusFilter_Dropped(status) == NoFilter

\* status_filter = PRStatus(status) if status else None
StatusFilter(status) == IF status = NoStatus THEN NoFilter ELSE status

\* prs = db.list_prs(repo_path=repo_path, status=status_filter, limit=limit)
\* and the table of the records returned.  There is one repository, so
\* --repo selects all or nothing and is left out.
List(p) ==
    /\ CanStart(p)
    /\ \E status \in PRStatus \cup {NoStatus}, limit \in 0 .. MaxLimit :
          cmd' = [cmd EXCEPT ![p] =
                     [Done("list", 0, "ok", 0) EXCEPT
                         !.filter = status, !.limit = limit,
                         !.listed = list_prs(prs, StatusFilter(status), limit)]]
    /\ UNCHANGED <<prs, git, reviews, comments, replies>>

(* ------------------------------ environment --------------------------- *)

\* The status changes a reviewer may make (spec 4.2): a verdict on a pending
\* PR, or closing a PR that is not merged or closed.
ReviewerMay(from, to) ==
    \/ from = PENDING /\ to \in {APPROVED, CHANGES_REQUESTED}
    \/ from \notin Terminal /\ to = CLOSED

Review ==
    /\ reviews < MaxReviews
    /\ \E id \in PRIds, s \in PRStatus :
          /\ Live(prs, id)
          /\ ReviewerMay(prs[id].status, s)
          /\ prs' = update_pr_status(prs, id, s)
    /\ reviews' = reviews + 1
    /\ UNCHANGED <<git, cmd, comments, replies>>

\* The PR record disappears (the command line has no operation for it).
Delete ==
    /\ \E id \in PRIds :
          /\ Live(prs, id)
          /\ prs' = [prs EXCEPT ![id] = DeletedPR]
          /\ comments' = CommentsWithout(comments, id)
          /\ replies' = RepliesWithout(comments, replies, id)
    /\ UNCHANGED <<git, cmd, reviews>>

\* The reviewer adds a comment to a PR (addComment).
AddComment ==
    /\ FreeCommentIds(comments) # {}
    /\ \E id \in PRIds :
          /\ Live(prs, id)
          /\ comments' = add_comment(comments, id)
    /\ UNCHANGED <<prs, git, cmd, reviews, replies>>

\* The reviewer marks a comment resolved (resolveComment).
ResolveComment ==
    /\ \E c \in CommentIds :
          /\ Stored(comments, c)
          /\ ~comments[c].resolved
          /\ comments' = resolve_comment(comments, c)
    /\ UNCHANGED <<prs, git, cmd, reviews, replies>>

\* The reviewer answers in the thread of a comment (addReply).
ReviewerReply ==
    /\ Len(replies) < MaxReplies
    /\ \E c \in CommentIds, text \in Messages :
          /\ Stored(comments, c)
          /\ replies' = add_reply(comments, replies, c, text, "human")
    /\ UNCHANGED <<prs, git, cmd, reviews, comments>>

Next ==
    \/ \E p \in Procs :
          \/ Create(p)
          \/ UpdateStart(p) \/ UpdateDiff(p) \/ UpdateStatus(p)
          \/ MergeStart(p) \/ MergeGit(p) \/ MergePush(p) \/ MergeDelete(p) \/ MergeWrite(p)
    \/ Review
    \/ Delete

Spec == Init /\ [][Next]_vars

\* The creates beside every kind of writer: the first two invocations
\* create, the third updates or merges, and the reviewer and the removal of
\* the record act as in Spec.
CreateNext ==
    \/ Create(1)
    \/ Create(2)
    \/ UpdateStart(3) \/ UpdateDiff(3) \/ UpdateStatus(3)
    \/ MergeStart(3) \/ MergeGit(3) \/ MergePush(3) \/ MergeDelete(3) \/ MergeWrite(3)
    \/ Review
    \/ Delete

CreateSpec == Init /\ [][CreateNext]_vars

\* The writers of one PR: the first invocation creates, the second and the
\* third update or merge, and the reviewer and the removal of the record act
\* as in Spec.
WritersNext ==
    \/ Create(1)
    \/ \E p \in {2, 3} :
          \/ UpdateStart(p) \/ UpdateDiff(p) \/ UpdateStatus(p)
          \/ MergeStart(p) \/ MergeGit(p) \/ MergePush(p) \/ MergeDelete(p) \/ MergeWrite(p)
    \/ Review
    \/ Delete

WritersSpec == Init /\ [][WritersNext]_vars

\* The merges of one PR: the first invocation creates, the second and the
\* third merge, and the reviewer and the removal of the record act as in Spec.
MergeNext ==
    \/ Create(1)
    \/ \E p \in {2, 3} :
          MergeStart(p) \/ MergeGit(p) \/ MergePush(p) \/ MergeDelete(p) \/ MergeWrite(p)
    \/ Review
    \/ Delete

MergeSpec == Init /\ [][MergeNext]_vars

\* One watch beside the writers of the PR it polls: the first invocation
\* creates, the second watches, the third updates, and the reviewer and the
\* removal of the record act as in Spec.
WatchNext ==
    \/ Create(1)
    \/ WatchStart(2) \/ WatchSleep(2) \/ WatchPoll(2) \/ WatchComments(2) \/ WatchInterrupt(2)
    \/ UpdateStart(3) \/ UpdateDiff(3) \/ UpdateStatus(3)
    \/ Review
    \/ Delete

\* An iteration of watch p in which the clock is seen to move on.
WatchClockMoves(p) ==
    WatchSleep(p) /\ (cmd'[p].pc = "done" \/ cmd'[p].elapsed > cmd[p].elapsed)

\* A running watch is scheduled (its process keeps taking steps), and time
\* passes: of the iterations of a loop that goes on forever, some see a later
\* second than the one before.
WatchFairness ==
    /\ WF_vars(WatchSleep(2))
    /\ WF_vars(WatchPoll(2))
    /\ WF_vars(WatchComments(2))
    /\ SF_vars(WatchClockMoves(2))

WatchSpec == Init /\ [][WatchNext]_vars /\ WatchFairness

\* One watch beside the reviewer who comments on PRs, resolves comments and
\* sets the verdict: the first and the third invocation create, the second
\* watches.
FeedbackNext ==
    \/ Create(1)
    \/ WatchStart(2) \/ WatchSleep(2) \/ WatchPoll(2) \/ WatchComments(2) \/ WatchInterrupt(2)
    \/ Create(3)
    \/ Review
    \/ AddComment
    \/ ResolveComment

FeedbackSpec == Init /\ [][FeedbackNext]_vars

\* The comment threads: the first invocation creates a PR, the second
\* replies, the third reads the comments, and the reviewer comments, answers
\* and resolves; the PR may be removed.
ThreadNext ==
    \/ Create(1)
    \/ ReplyStart(2) \/ ReplyComment(2) \/ ReplyAdd(2)
    \/ CommentsStart(3) \/ CommentsFetch(3)
    \/ AddComment
    \/ ResolveComment
    \/ ReviewerReply
    \/ Delete

ThreadSpec == Init /\ [][ThreadNext]_vars

\* A reply beside two PRs and their comments: the first two invocations
\* create, the third replies, and the reviewer comments.
ReplyNext ==
    \/ Create(1)
    \/ Create(2)
    \/ ReplyStart(3) \/ ReplyComment(3) \/ ReplyAdd(3)
    \/ AddComment

ReplySpec == Init /\ [][ReplyNext]_vars

\* A list beside the commands and the reviewer that change what it filters
\* by: the first two invocations create, the third lists.
ListNext ==
    \/ Create(1)
    \/ Create(2)
    \/ List(3)
    \/ Review
    \/ Delete

ListSpec == Init /\ [][ListNext]_vars

(* ------------------------------- claims ------------------------------- *)

\* Invocation p takes the step.
Steps(p) == cmd'[p] # cmd[p]

\* Invocation p takes the step that ends it.
Ends(p) == cmd[p].pc # "done" /\ cmd'[p].pc = "done"

\* PR i is stored before and after the step and only its status and
\* updated_at differ.
OnlyStatusWritten(i) ==
    /\ Live(prs, i) /\ Live(prs', i)
    /\ prs' = [prs EXCEPT ![i].status = prs'[i].status, ![i].updated_at = prs'[i].updated_at]

\* What a step of merge command p may do: when the PR is missing or not
\* APPROVED at the check, or the working tree has uncommitted changes, the
\* step ends the command with exit code 1 and changes neither the store nor
\* git; git merge is invoked only after the check found APPROVED; the store
\* is written only after APPROVED and a clean tree were found, and the write
\* sets the status of that PR to MERGED and nothing else.
C1_MergeStep(p) ==
    /\ (cmd[p].pc = "idle" /\ ~(Live(prs, cmd'[p].pr) /\ prs[cmd'[p].pr].status = APPROVED))
          => /\ cmd'[p].pc = "done" /\ ExitCode(cmd'[p].outcome) = 1
             /\ prs' = prs /\ git' = git
    /\ cmd'[p].uncommitted = "yes"
          => /\ cmd'[p].pc = "done" /\ ExitCode(cmd'[p].outcome) = 1
             /\ prs' = prs /\ git' = git
    /\ git'[cmd'[p].pr].merge # git[cmd'[p].pr].merge
          => cmd[p].status = APPROVED /\ cmd[p].pc = "m_git"
    /\ prs' # prs
          => /\ cmd[p].status = APPROVED /\ cmd[p].uncommitted = "no"
             /\ OnlyStatusWritten(cmd[p].pr)
             /\ prs'[cmd[p].pr].status = MERGED

\* C1: a merge command writes MERGED only after a check that found the PR
\* stored and APPROVED and the working tree clean; for every other outcome of
\* the check the command fails in that very step, invokes no git merge and
\* leaves the store as it was.
C1_MergeOnlyWhenApprovedAndClean ==
    [][\A p \in Procs : (Steps(p) /\ cmd'[p].kind = "merge") => C1_MergeStep(p)]_vars

\* C1's case: one merge has ended in failure on uncommitted changes, leaving
\* the PR approved, and another has merged it.
C1_Witness ==
    \E p, q \in Procs :
        /\ cmd[p].kind = "merge" /\ cmd[p].pc = "done" /\ cmd[p].uncommitted = "yes"
        /\ cmd[q].kind = "merge" /\ cmd[q].pc = "done" /\ cmd[q].outcome = "ok"
        /\ q > p /\ cmd[q].pr = cmd[p].pr
        /\ Live(prs, cmd[q].pr) /\ prs[cmd[q].pr].status = MERGED

\* C2: once a stored PR is MERGED or CLOSED, no step changes its status.
C2_TerminalAbsorbing ==
    [][\A i \in PRIds :
          (Live(prs, i) /\ Live(prs', i) /\ prs[i].status \in Terminal)
             => prs'[i].status = prs[i].status]_vars

\* The step that ends update p: if the command succeeded, the PR is still
\* stored and its updated_at has moved by the command's own two writes only
\* (nothing else wrote the PR since the command read it), then the latest
\* revision is one more than the command found and the status is PENDING.
C3_UpdateStep(p) ==
    LET i == cmd[p].pr IN
    (/\ cmd'[p].outcome = "ok"
     /\ Live(prs', i)
     /\ prs'[i].updated_at = cmd[p].updated0 + 2)
        => /\ LatestRevision(prs'[i]) = cmd[p].rev0 + 1
           /\ prs'[i].status = PENDING

\* C3: an update command that ends successfully with no other writer in
\* between leaves the PR with a latest revision one above the one before and
\* with status PENDING, whatever the status was.
C3_UpdateBumpsAndResets ==
    [][\A p \in Procs : (Ends(p) /\ cmd[p].kind = "update") => C3_UpdateStep(p)]_vars

\* C3's case: a PR was created, the reviewer gave a verdict, and an update
\* ran on it alone: revision 2, pending, four writes in all.
C3_Witness ==
    \E p \in Procs :
        /\ cmd[p].kind = "update" /\ cmd[p].pc = "done" /\ cmd[p].outcome = "ok"
        /\ cmd[p].new_revision = 2
        /\ Live(prs, cmd[p].pr)
        /\ prs[cmd[p].pr].status = PENDING
        /\ prs[cmd[p].pr].revs = <<1, 2>>
        /\ prs[cmd[p].pr].updated_at = 4
        /\ reviews = 1

\* C4: in no state has an update appended its revision while the stored
\* status is still the APPROVED or CHANGES_REQUESTED it found.
C4_UpdateAtomicToReaders ==
    \A p \in Procs :
        (cmd[p].kind = "update" /\ cmd[p].pc = "u_status" /\ Live(prs, cmd[p].pr))
           => ~(/\ LatestRevision(prs[cmd[p].pr]) = cmd[p].new_revision
                /\ cmd[p].new_revision = cmd[p].rev0 + 1
                /\ prs[cmd[p].pr].status = cmd[p].status
                /\ cmd[p].status \in {APPROVED, CHANGES_REQUESTED})

\* The revisions of a stored PR are numbered 1, 2, ..., n.
RevisionsContiguous ==
    \A i \in PRIds :
        Live(prs, i) =>
            /\ Len(prs[i].revs) >= 1
            /\ \A k \in DOMAIN prs[i].revs : prs[i].revs[k] = k

\* The step in which update p gets its revision number back.
ReturnsRevision(p) ==
    cmd[p].kind = "update" /\ cmd[p].new_revision = 0 /\ cmd'[p].new_revision # 0

\* The number is above every number an update on the same PR got before.
ReturnedAbovePrevious(p) ==
    /\ cmd'[p].new_revision > 1
    /\ \A q \in Procs :
          (cmd[q].kind = "update" /\ cmd[q].pr = cmd[p].pr /\ cmd[q].new_revision # 0)
             => cmd'[p].new_revision > cmd[q].new_revision

\* C5: in every state the revision numbers of a stored PR are exactly 1..n
\* (a new PR has revision 1 alone), and every update is given a revision
\* number above every number given to an earlier update of that PR, however
\* the commands interleave.
C5_RevisionNumbers ==
    /\ []RevisionsContiguous
    /\ [][\A p \in Procs : ReturnsRevision(p) => ReturnedAbovePrevious(p)]_vars
    /\ [][\A i \in PRIds : (~Live(prs, i) /\ Live(prs', i)) => prs'[i].revs = <<1>>]_vars

\* C5's case: two updates of one PR were in flight together and both got
\* their number.
C5_Witness ==
    \E p, q \in Procs :
        /\ p # q
        /\ cmd[p].kind = "update" /\ cmd[q].kind = "update"
        /\ cmd[p].pr = cmd[q].pr
        /\ cmd[p].pc = "u_status" /\ cmd[q].pc = "u_status"
        /\ prs[cmd[p].pr].revs = <<1, 2, 3>>

\* C6: every step of a merge command that writes MERGED finds the stored
\* status APPROVED.
C6_MergedOnlyFromApproved ==
    [][\A p \in Procs :
          (cmd[p].pc = "m_write" /\ Steps(p) /\ Live(prs, cmd[p].pr))
             => prs[cmd[p].pr].status = APPROVED]_vars

\* C7: a merge command whose git merge succeeded (it is past that step) ends
\* with the stored status MERGED, whatever push and branch deletion did.
C7_MergedAfterGitMerge ==
    [][\A p \in Procs :
          (/\ Ends(p)
           /\ cmd[p].pc \in {"m_push", "m_delete", "m_write"}
           /\ Live(prs', cmd[p].pr))
             => prs'[cmd[p].pr].status = MERGED]_vars

\* A create command ends successfully in this step.
Created(p) == Ends(p) /\ cmd'[p].kind = "create" /\ cmd'[p].outcome = "ok"

\* C8: the step in which a create command succeeds stores one new PR, with
\* status PENDING and the single revision 1, and changes no other PR; every
\* PR that enters the store enters it so.
C8_CreateInitialState ==
    /\ [][\A p \in Procs :
             Created(p) =>
                /\ ~Live(prs, cmd'[p].pr) /\ Live(prs', cmd'[p].pr)
                /\ \A j \in PRIds \ {cmd'[p].pr} : prs'[j] = prs[j]]_vars
    /\ [][\A i \in PRIds :
             (~Live(prs, i) /\ Live(prs', i))
                => /\ prs'[i].status = PENDING
                   /\ prs'[i].revs = <<1>>
                   /\ \E p \in Procs : Created(p) /\ cmd'[p].pr = i]_vars

\* C8's case: a create has succeeded and its PR is as created.
C8_Witness ==
    \E p \in Procs :
        /\ cmd[p].kind = "create" /\ cmd[p].outcome = "ok"
        /\ Live(prs, cmd[p].pr)
        /\ prs[cmd[p].pr].updated_at = 1
        /\ prs[cmd[p].pr].status = PENDING

\* C9: every stored PR has different head and base branches and the commit
\* of a base that resolved; a create command that ends in failure leaves the
\* store as it was.
C9_HeadDiffersFromBase ==
    /\ [](\A i \in PRIds :
             Live(prs, i) =>
                /\ prs[i].head_ref # prs[i].base_ref
                /\ prs[i].head_ref \in Refs /\ prs[i].base_ref \in Refs
                /\ prs[i].base_commit = "sha:" \o prs[i].base_ref)
    /\ [][\A p \in Procs :
             (Ends(p) /\ cmd'[p].kind = "create" /\ cmd'[p].outcome # "ok")
                => prs' = prs]_vars

\* C9's case: one create was refused and another stored a PR.
C9_Witness ==
    \E p, q \in Procs :
        /\ cmd[p].kind = "create" /\ cmd[p].outcome = "fail"
        /\ cmd[q].kind = "create" /\ cmd[q].outcome = "ok"
        /\ Live(prs, cmd[q].pr)

\* The stored PR that watch p polls satisfies p's target now.
TargetHolds(p) ==
    /\ Live(prs, cmd[p].pr)
    /\ TargetReached(cmd[p].until, prs[cmd[p].pr].status, prs[cmd[p].pr].updated_at,
                     cmd[p].initial_status, cmd[p].initial_updated)

\* Watch p is in its loop and has not found its target.
Watching(p) == cmd[p].kind = "watch" /\ cmd[p].pc \in {"w_sleep", "w_poll"}

WatchEnded(p, outcome) == cmd[p].kind = "watch" /\ cmd[p].pc = "done" /\ cmd[p].outcome = outcome

\* C10: a running watch with a timeout above 0 leads to its timeout outcome
\* (exit code 1), unless the stored PR comes to satisfy the target, goes
\* missing, or the watch is interrupted; a watch reports its target reached
\* only in a poll whose sample satisfies the target; and a watch with
\* timeout 0 never ends with the timeout outcome.
C10_WatchTimeout ==
    /\ \A p \in Procs :
          (Watching(p) /\ cmd[p].timeout > 0)
             ~> \/ WatchEnded(p, "timeout") /\ ExitCode(cmd[p].outcome) = 1
                \/ TargetHolds(p)
                \/ ~Live(prs, cmd[p].pr)
                \/ WatchEnded(p, "stopped")
    /\ [][\A p \in Procs :
             (cmd[p].kind = "watch" /\ cmd[p].outcome # "success" /\ cmd'[p].outcome = "success")
                => cmd[p].pc = "w_poll" /\ TargetHolds(p)]_vars
    /\ [][\A p \in Procs :
             (Ends(p) /\ cmd[p].kind = "watch" /\ cmd'[p].outcome = "timeout")
                => cmd[p].timeout > 0]_vars

\* C10's case: a watch with a timeout has timed out on a PR that is stored
\* and does not satisfy its target (feedback on a PR still pending).
C10_Witness ==
    \E p \in Procs :
        /\ WatchEnded(p, "timeout")
        /\ Live(prs, cmd[p].pr)
        /\ prs[cmd[p].pr].status = PENDING
        /\ prs[cmd[p].pr].updated_at = 1

\* Watch p decides in this step that its target is reached.
Succeeds(p) ==
    cmd[p].kind = "watch" /\ cmd[p].outcome # "success" /\ cmd'[p].outcome = "success"

\* The condition of mode until on the sampled record pr, against the
\* baseline (initial_status, initial_updated).
C11_ModeCondition(until, pr, initial_status, initial_updated) ==
    CASE until \in {"approved", "changes_requested", "pending"} -> pr.status = until
      [] until = "feedback_given" -> pr.status \in {APPROVED, CHANGES_REQUESTED}
      [] until = "any_change" ->
            pr.status # initial_status \/ pr.updated_at # initial_updated
      [] OTHER -> FALSE

\* C11: a watch reports success only in a poll whose sample of the stored PR
\* satisfies the condition of its mode: the status equals the target for
\* approved, changes_requested and pending; it is APPROVED or
\* CHANGES_REQUESTED for feedback_given; the status or updated_at differs
\* from the baseline for any_change, and the baseline is the status and
\* updated_at the watch read before its loop and is not changed in the loop.
C11_SuccessOnlyOnSample ==
    /\ [][\A p \in Procs :
             Succeeds(p) =>
                /\ cmd[p].pc = "w_poll"
                /\ Live(prs, cmd[p].pr)
                /\ C11_ModeCondition(cmd[p].until, prs[cmd[p].pr],
                                     cmd[p].initial_status, cmd[p].initial_updated)]_vars
    /\ [][\A p \in Procs :
             /\ (cmd[p].pc = "idle" /\ cmd'[p].pc = "w_sleep") =>
                   /\ cmd'[p].initial_status = prs[cmd'[p].pr].status
                   /\ cmd'[p].initial_updated = prs[cmd'[p].pr].updated_at
             /\ (Watching(p) /\ cmd'[p].pc # "done") =>
                   /\ cmd'[p].initial_status = cmd[p].initial_status
                   /\ cmd'[p].initial_updated = cmd[p].initial_updated
                   /\ cmd'[p].until = cmd[p].until]_vars
    /\ \A p \in Procs :
          WatchEnded(p, "success") => ExitCode(cmd[p].outcome) = 0

\* C11's case: a feedback_given watch has reported success on a PR the
\* reviewer asked changes of, and the PR has not been written since.
C11_Witness ==
    \E p \in Procs :
        /\ WatchEnded(p, "success")
        /\ cmd[p].until = "feedback_given"
        /\ cmd[p].status = CHANGES_REQUESTED
        /\ Live(prs, cmd[p].pr)
        /\ prs[cmd[p].pr].status = CHANGES_REQUESTED

\* The stored PR that watch p polls is as the watch read it before its loop:
\* nothing has written it since.
AsAtBaseline(p) ==
    /\ Live(prs, cmd[p].pr)
    /\ prs[cmd[p].pr].status = cmd[p].initial_status
    /\ prs[cmd[p].pr].updated_at = cmd[p].initial_updated

\* C12: the termination condition reached first wins: a watch does not end
\* with the timeout outcome when the stored PR has satisfied its target
\* since before the timeout elapsed (here: since the watch began, no write
\* in between) and satisfies it in the state the next poll would sample.
C12_FirstReachedWins ==
    [][\A p \in Procs :
          (Ends(p) /\ cmd[p].kind = "watch" /\ cmd'[p].outcome = "timeout")
             => ~(AsAtBaseline(p) /\ TargetHolds(p))]_vars

\* C13: a watch that finds no PR under its identifier, when it starts or in
\* a poll, ends in that step with the not-found failure (exit code 1, never
\* success or timeout); an ended watch takes no further step, and the step
\* writes nothing.
C13_MissingPRFails ==
    [][\A p \in Procs :
          /\ (cmd[p].pc = "idle" /\ cmd'[p].kind = "watch" /\ ~Live(prs, cmd'[p].pr))
                => /\ WatchEnded(p, "notfound")' /\ ExitCode(cmd'[p].outcome) = 1
                   /\ prs' = prs /\ comments' = comments /\ replies' = replies
          /\ (cmd[p].pc = "w_poll" /\ Steps(p) /\ cmd'[p].outcome # "stopped"
                 /\ ~Live(prs, cmd[p].pr))
                => /\ WatchEnded(p, "notfound")' /\ ExitCode(cmd'[p].outcome) = 1
                   /\ prs' = prs /\ comments' = comments /\ replies' = replies
          /\ (cmd[p].kind = "watch" /\ cmd[p].pc = "done") => cmd'[p] = cmd[p]
          /\ (Steps(p) /\ cmd'[p].kind = "watch" /\ cmd'[p].outcome = "notfound")
                => ~Live(prs, cmd'[p].pr)]_vars

\* C13's case: a watch ended with not-found on a PR that was removed while
\* the watch ran: an update started after the watch still found the PR.
C13_Witness ==
    \E p, q \in Procs :
        /\ p < q
        /\ WatchEnded(p, "notfound")
        /\ cmd[q].kind = "update" /\ cmd[q].pc \in {"u_diff", "u_status"}
        /\ cmd[q].pr = cmd[p].pr
        /\ prs[cmd[p].pr].state = "deleted"

\* C14: a watch in mode changes_requested or feedback_given that finds its
\* target in a CHANGES_REQUESTED sample fetches the comments before it
\* exits, and its result holds exactly the comments stored for that PR with
\* resolved = false at the fetch: no resolved comment and no comment of
\* another PR.
C14_UnresolvedCommentsInResult ==
    [][\A p \in Procs :
          /\ (Succeeds(p) /\ cmd[p].until \in {"changes_requested", "feedback_given"}
                 /\ prs[cmd[p].pr].status = CHANGES_REQUESTED)
                => cmd'[p].pc = "w_comments" /\ cmd'[p].status = CHANGES_REQUESTED
          /\ (Ends(p) /\ cmd[p].pc = "w_comments" /\ cmd'[p].outcome = "success")
                => cmd'[p].shown = {c \in CommentIds :
                                      /\ comments[c].state = "stored"
                                      /\ comments[c].pr = cmd[p].pr
                                      /\ comments[c].resolved = FALSE}]_vars

\* C14's case: a watch has reported changes requested with one unresolved
\* comment of its PR, and the store holds a resolved comment of that PR.
C14_Witness ==
    \E p \in Procs : \E c, d \in CommentIds :
        /\ WatchEnded(p, "success")
        /\ cmd[p].status = CHANGES_REQUESTED
        /\ cmd[p].until \in {"changes_requested", "feedback_given"}
        /\ cmd[p].shown = {c}
        /\ Stored(comments, c) /\ ~comments[c].resolved
        /\ Stored(comments, d) /\ comments[d].resolved /\ comments[d].pr = cmd[p].pr

\* The same with a comment of another PR in the store.
C14_WitnessOtherPR ==
    \E p \in Procs : \E c, d \in CommentIds :
        /\ WatchEnded(p, "success")
        /\ cmd[p].status = CHANGES_REQUESTED
        /\ cmd[p].shown = {c}
        /\ Stored(comments, d) /\ comments[d].pr # cmd[p].pr

\* C15: a watch in its loop can be interrupted wherever it is (asleep, about
\* to poll or about to fetch the comments); the interrupt ends it in one
\* step with the stopped outcome, which has exit code 0 and is neither the
\* timeout nor the not-found outcome; and no step of a watch, the interrupt
\* included, changes a PR, a revision, a comment or a reply.
C15_InterruptStopsCleanly ==
    /\ \A p \in Procs :
          (cmd[p].kind = "watch" /\ cmd[p].pc # "done") => ENABLED WatchInterrupt(p)
    /\ [][\A p \in Procs :
             /\ (Steps(p) /\ cmd'[p].kind = "watch" /\ cmd'[p].outcome = "stopped")
                   => /\ cmd[p].kind = "watch" /\ cmd[p].pc # "done"
                      /\ cmd'[p].pc = "done"
                      /\ ExitCode(cmd'[p].outcome) = 0
                      /\ ExitCode("timeout") # 0 /\ ExitCode("notfound") # 0
             /\ (Steps(p) /\ cmd'[p].kind = "watch")
                   => prs' = prs /\ comments' = comments /\ replies' = replies /\ git' = git]_vars

\* C15's case: a watch was interrupted while the PR it polled was stored.
C15_Witness ==
    \E p \in Procs :
        /\ WatchEnded(p, "stopped")
        /\ Live(prs, cmd[p].pr)
        /\ prs[cmd[p].pr].status = PENDING

\* Reply command p takes a step.
ReplySteps(p) == Steps(p) /\ cmd'[p].kind = "reply"

\* C16: no reply is stored against a comment that does not exist.  The owning
\* comment of every stored reply is stored; a reply command that finds no PR
\* or no comment under the identifier it was given ends in that step with
\* the not-found failure (exit code 1) and the stored replies unchanged; and
\* a step of a reply command that changes the stored replies is the step of
\* a successful command whose comment is stored.
C16_NoReplyWithoutComment ==
    /\ \A i \in DOMAIN replies :
          /\ replies[i].comment \in CommentIds
          /\ comments[replies[i].comment].state = "stored"
    /\ [][\A p \in Procs :
             /\ (ReplySteps(p) /\ cmd[p].pc = "idle" /\ ~Live(prs, cmd'[p].pr))
                   => /\ cmd'[p].pc = "done" /\ cmd'[p].outcome = "notfound"
                      /\ ExitCode(cmd'[p].outcome) = 1
                      /\ replies' = replies
             /\ (ReplySteps(p) /\ cmd[p].pc \in {"r_comment", "r_add"}
                    /\ comments[cmd[p].comment].state # "stored")
                   => /\ cmd'[p].pc = "done" /\ cmd'[p].outcome = "notfound"
                      /\ ExitCode(cmd'[p].outcome) = 1
                      /\ replies' = replies
             /\ (ReplySteps(p) /\ replies' # replies)
                   => /\ cmd'[p].pc = "done" /\ cmd'[p].outcome = "ok"
                      /\ comments[cmd[p].comment].state = "stored"]_vars

\* C16's case: a reply command was refused for a comment that is not
\* stored, on a PR that is, and the replies that were stored are still there.
C16_Witness ==
    \E p \in Procs :
        /\ cmd[p].kind = "reply" /\ cmd[p].outcome = "notfound"
        /\ cmd[p].comment \in CommentIds /\ ~Stored(comments, cmd[p].comment)
        /\ Live(prs, cmd[p].pr)
        /\ replies # <<>>

\* C17: a list filtered by status s returns only PRs that are stored with
\* status s when the list reads the store, and all of them up to the limit;
\* no PR whose status differs from s is in the result.
C17_ListFilteredByStatus ==
    [][\A p \in Procs :
          (Steps(p) /\ cmd'[p].kind = "list" /\ cmd'[p].filter \in PRStatus)
             => LET rows == cmd'[p].listed
                    s == cmd'[p].filter
                    with_s == {i \in PRIds : prs[i].state = "live" /\ prs[i].status = s} IN
                /\ \A k \in DOMAIN rows : rows[k] \in with_s
                /\ \A k, l \in DOMAIN rows : k # l => rows[k] # rows[l]
                /\ Len(rows) = Min(cmd'[p].limit, Cardinality(with_s))
                /\ prs' = prs]_vars

\* C17's case: a list filtered by a status returned one PR and left out a
\* stored PR with another status, within its limit.
C17_Witness ==
    \E p \in Procs : \E i, j \in PRIds :
        /\ cmd[p].kind = "list" /\ cmd[p].filter \in PRStatus
        /\ cmd[p].listed = <<i>> /\ cmd[p].limit = 2
        /\ Live(prs, i) /\ prs[i].status = cmd[p].filter
        /\ Live(prs, j) /\ prs[j].status # cmd[p].filter

\* The replies stored for comment c in the reply table rs, oldest first.
C18_Log(rs, c) == SelectSeq(rs, LAMBDA r : r.comment = c)

IsPrefix(a, b) == Len(a) <= Len(b) /\ SubSeq(b, 1, Len(a)) = a

\* C18: the replies of a comment are an append-only log in creation order.
\* As long as the comment is stored, the log before a step is a prefix of the
\* log after it; a successful reply command adds its reply (author and
\* message as given) at the end of the log of its comment and nowhere else;
\* and the comments command returns, for each comment, that log in that
\* order.
C18_RepliesAppendOnly ==
    /\ [][\A c \in CommentIds :
             (comments[c].state = "stored" /\ comments'[c].state = "stored")
                => IsPrefix(C18_Log(replies, c), C18_Log(replies', c))]_vars
    /\ [][\A p \in Procs :
             (ReplySteps(p) /\ cmd'[p].outcome = "ok")
                => /\ C18_Log(replies', cmd[p].comment)
                        = Append(C18_Log(replies, cmd[p].comment),
                                 [comment |-> cmd[p].comment, author |-> cmd[p].author,
                                  content |-> cmd[p].message])
                   /\ \A c \in CommentIds \ {cmd[p].comment} :
                         C18_Log(replies', c) = C18_Log(replies, c)]_vars
    /\ [][\A p \in Procs :
             (Steps(p) /\ cmd'[p].kind = "comments" /\ cmd'[p].outcome = "ok")
                => \A t \in cmd'[p].shown : t.replies = C18_Log(replies, t.comment)]_vars

\* C18's case: the comments command returned a comment with two replies, the
\* later one written by a reply command, and the store still has that log.
C18_Witness ==
    \E p, q \in Procs : \E t \in cmd[p].shown :
        /\ cmd[p].kind = "comments" /\ cmd[p].outcome = "ok"
        /\ Len(t.replies) = 2
        /\ cmd[q].kind = "reply" /\ cmd[q].outcome = "ok" /\ cmd[q].comment = t.comment
        /\ t.replies[2].author = cmd[q].author /\ t.replies[2].content = cmd[q].message
        /\ t.replies[1] # t.replies[2]
        /\ C18_Log(replies, t.comment) = t.replies

\* C19: a reply command that stores its reply changes the reply list of its
\* comment and nothing else: every comment record, the resolved flag of the
\* target among them, is as before, and so is every PR (status, revisions,
\* updated_at).  If the comment was unresolved, the unresolved-only query of
\* its PR returns it after the step, with the new reply last in its list.
C19_ReplyChangesOnlyReplies ==
    [][\A p \in Procs :
          (ReplySteps(p) /\ cmd'[p].outcome = "ok")
             => LET c == cmd[p].comment
                    new == [comment |-> c, author |-> cmd[p].author, content |-> cmd[p].message]
                IN
                /\ comments' = comments
                /\ prs' = prs
                /\ git' = git
                /\ replies' = Append(replies, new)
                /\ comments'[c].resolved = comments[c].resolved
                /\ ~comments[c].resolved
                      => \E t \in get_comments_with_replies(comments', replies',
                                                            comments[c].pr, TRUE) :
                            /\ t.comment = c
                            /\ t.replies # <<>>
                            /\ t.replies[Len(t.replies)] = new]_vars

\* C19's case: after a reply command stored its reply, the comments command
\* asked for the unresolved comments and got the comment, unresolved as it
\* was, with the reply in its list.
C19_Witness ==
    \E p, q \in Procs : \E t \in cmd[q].shown :
        /\ cmd[p].kind = "reply" /\ cmd[p].outcome = "ok"
        /\ cmd[q].kind = "comments" /\ cmd[q].filter = "unresolved"
        /\ t.comment = cmd[p].comment
        /\ Len(t.replies) = 1
        /\ t.replies[1].author = cmd[p].author /\ t.replies[1].content = cmd[p].message
        /\ Stored(comments, cmd[p].comment) /\ ~comments[cmd[p].comment].resolved
        /\ prs[cmd[p].pr].status = PENDING /\ prs[cmd[p].pr].revs = <<1>>

\* C20: a merge command whose git merge fails ends in that step with exit
\* code 1; the step writes no PR (the status the command found APPROVED is
\* not changed by it) and invokes neither push nor delete_branch; git merge
\* was invoked once by it and, the command being over, is not invoked again.
C20_MergeFailureStops ==
    [][\A p \in Procs :
          /\ (Steps(p) /\ cmd[p].pc = "m_git" /\ cmd'[p].pc = "done" /\ git' # git)
                => LET id == cmd[p].pr IN
                   /\ cmd[p].status = APPROVED
                   /\ cmd'[p].outcome = "fail" /\ ExitCode(cmd'[p].outcome) = 1
                   /\ prs' = prs
                   /\ git' = [git EXCEPT ![id].merge = git[id].merge + 1]
          /\ (Steps(p) /\ cmd[p].kind = "merge"
                 /\ \E id \in PRIds : git'[id].merge # git[id].merge)
                => cmd[p].pc = "m_git" /\ cmd'[p].pc # "m_git"
          /\ (cmd'[p].pc = "m_git" /\ cmd[p].pc # "m_git") => cmd[p].pc = "idle"
          /\ (cmd[p].kind = "merge" /\ cmd[p].pc = "done") => cmd'[p] = cmd[p]]_vars

\* C20's case: the only merge command of the behaviour asked for a push and
\* ended in failure after one git merge; nothing was pushed or deleted and
\* the PR is still APPROVED.
C20_Witness ==
    \E p \in Procs :
        /\ cmd[p].kind = "merge" /\ cmd[p].pc = "done" /\ cmd[p].outcome = "fail"
        /\ \A q \in Procs \ {p} : cmd[q].kind # "merge"
        /\ git[cmd[p].pr] = [merge |-> 1, push |-> 0, delete_branch |-> 0]
        /\ Live(prs, cmd[p].pr) /\ prs[cmd[p].pr].status = APPROVED

\* C21: every write of a stored PR (a status write or a diff update) moves
\* its updated_at on, and a poll of an any_change watch that samples the PR
\* after a write made since the baseline ends the watch with the
\* change-detected (success) outcome, whether or not the sampled status
\* differs from the baseline status.
C21_AnyChangeDetectsWrites ==
    /\ [][\A i \in PRIds :
             (Live(prs, i) /\ Live(prs', i) /\ prs'[i] # prs[i])
                => prs'[i].updated_at > prs[i].updated_at]_vars
    /\ [][\A p \in Procs :
             (/\ cmd[p].kind = "watch" /\ cmd[p].until = "any_change"
              /\ cmd[p].pc = "w_poll" /\ Steps(p) /\ cmd'[p].outcome # "stopped"
              /\ Live(prs, cmd[p].pr)
              /\ prs[cmd[p].pr].updated_at > cmd[p].initial_updated)
                => /\ cmd'[p].outcome = "success"
                   /\ ExitCode(cmd'[p].outcome) = 0]_vars

\* C21's case: an any_change watch reported a change on a PR that was
\* pending throughout (no reviewer write) and was updated to revision 2.
C21_Witness ==
    \E p \in Procs :
        /\ WatchEnded(p, "success")
        /\ cmd[p].until = "any_change"
        /\ cmd[p].status = PENDING
        /\ reviews = 0
        /\ Live(prs, cmd[p].pr)
        /\ prs[cmd[p].pr].revs = <<1, 2>>
        /\ prs[cmd[p].pr].status = PENDING

\* C22: a watch with timeout 0 that is in its loop while the stored PR
\* satisfies its target (from the start of the watch or from a later write)
\* ends with the success outcome, unless the PR stops satisfying the target
\* (a removed PR satisfies none) while the watch is still in its loop, or the
\* watch is interrupted.
C22_WatchEventuallySucceeds ==
    \A p \in Procs :
        (Watching(p) /\ cmd[p].timeout = 0 /\ TargetHolds(p))
           ~> \/ WatchEnded(p, "success") /\ ExitCode(cmd[p].outcome) = 0
              \/ WatchEnded(p, "stopped")
              \/ Watching(p) /\ ~TargetHolds(p)

\* C22's case: a watch with timeout 0 for pending has ended with success on
\* a PR that was pending when the watch began and was never written.
C22_Witness ==
    \E p \in Procs :
        /\ WatchEnded(p, "success")
        /\ cmd[p].timeout = 0
        /\ cmd[p].until = "pending"
        /\ Live(prs, cmd[p].pr)
        /\ prs[cmd[p].pr].status = PENDING
        /\ prs[cmd[p].pr].updated_at = 1

\* C23: a failed update command is all-or-nothing.  When an update ends in
\* failure and nothing else has written the PR since the command read it,
\* the stored PR has the latest revision and the status the command found.
C23_FailedUpdateWritesNothing ==
    [][\A p \in Procs :
          LET i == cmd[p].pr
              own == IF cmd[p].pc = "u_status" THEN 1 ELSE 0 IN
          (/\ Ends(p) /\ cmd[p].kind = "update" /\ cmd'[p].outcome = "fail"
           /\ Live(prs', i)
           /\ prs'[i].updated_at = cmd[p].updated0 + own)
             => /\ LatestRevision(prs'[i]) = cmd[p].rev0
                /\ prs'[i].status = cmd[p].status]_vars

\* C24: the reply command adds a reply only to a comment of the PR named in
\* the command: a step of a reply command that changes the stored replies
\* is for a comment whose owning PR is the command's PR.
C24_ReplyOnlyToOwnPR ==
    [][\A p \in Procs :
          (ReplySteps(p) /\ replies' # replies)
             => comments[cmd[p].comment].pr = cmd[p].pr]_vars

\* C25: whatever the interleaving of the merge commands on a PR, git merge
\* is invoked for that PR at most once, and no step invokes it while the
\* stored status of the PR is MERGED.
C25_GitMergeAtMostOnce ==
    /\ \A i \in PRIds : git[i].merge <= 1
    /\ [][\A i \in PRIds :
             git'[i].merge # git[i].merge => ~(Live(prs, i) /\ prs[i].status = MERGED)]_vars

====
